---- MODULE Spec2Model ----
(***************************************************************************)
(* Model of the two generator scripts of horizon-theme:                    *)
(*   .github/scripts/generate_metafields.py        (script "metafields")   *)
(*   .github/scripts/generate_fin_characteristics.py   (script "fin")      *)
(* Each invocation is a straight-line run: credential check, API           *)
(* request(s), classification, rendering of the Liquid document, and a     *)
(* truncating write of the output file.  The document is modelled as the   *)
(* sequence of its data-dependent parts (one element per generated line    *)
(* group); the static markup between them is one element each.             *)
(***************************************************************************)
EXTENDS Integers, Sequences, FiniteSets, TLC

VARIABLES
    script,                  \* which script the invocation runs
    ACCESS_TOKEN,            \* os.environ.get('SHOPIFY_ADMIN_TOKEN') of the invocation
    api,                     \* what the Admin API answers to the invocation's requests
    pc,                      \* position of the invocation in its script
    exit_code,               \* -1 while running, else the process exit code
    requests,                \* log of the requests.post calls issued, with the status received
    metaobject_refs,         \* metafields: list built at lines 95-109
    regular_fields,          \* metafields: list built at lines 96-116
    metaobject_definitions,  \* metafields: insertion-ordered dict built at lines 122-151
    fields,                  \* fin: definition.get('fieldDefinitions', [])
    timestamp,               \* datetime.utcnow() read when the document is assembled
    liquid,                  \* the document assembled by the invocation
    file,                    \* content of each output path on disk
    opens,                   \* number of open(THEME_FILE, 'w') calls of the invocation
    fs_log                   \* order of the open/write calls on the file system

vars == <<script, ACCESS_TOKEN, api, pc, exit_code, requests, metaobject_refs,
          regular_fields, metaobject_definitions, fields, timestamp, liquid,
          file, opens, fs_log>>

(***************************************************************************)
(* Bounds of the model.                                                    *)
(***************************************************************************)
\* longest list of metafield definitions the API returns to a lone invocation
MaxEdges == 2
\* longest fieldDefinitions list of a metaobject definition (lone invocation)
MaxSubFields == 2
\* number of distinct wall-clock minutes an invocation can read
MaxTime == 2
\* the same two list bounds for each of two overlapping invocations
PairMaxEdges == 1
PairMaxSubFields == 1

(***************************************************************************)
(* Program constants.                                                      *)
(***************************************************************************)
INCLUDE_NAMESPACES == <<"custom", "gato_heroi", "reviews", "descriptors">>
EXCLUDE_KEYS == <<"rating_value", "review_count", "rating", "rating_count", "availability">>

\* THEME_FILE of each script
THEME_FILE(s) ==
    IF s = "metafields" THEN "blocks/product-metafields.liquid"
                        ELSE "blocks/fin-characteristics.liquid"

Scripts == {"metafields", "fin"}
Paths == {THEME_FILE(s) : s \in Scripts}

NoLabels == [left_label |-> "", left_sublabel |-> "", right_label |-> "",
             right_sublabel |-> "", left_icon |-> "", right_icon |-> ""]

\* BAR_FIELD_CONFIG: the keys 'metaobject_type.field_key' that have an entry
BarConfigKeys ==
    {<<"fin_characteristics", "rake">>, <<"fin_characteristics", "area">>,
     <<"fin_characteristics", "speed">>, <<"fin_characteristics", "flex">>}

BAR_FIELD_CONFIG(config_key) ==
    CASE config_key[2] = "rake" ->
           [left_label |-> "Upright", left_sublabel |-> "Tight Turns",
            right_label |-> "Raked", right_sublabel |-> "Drawn-Out Turns",
            left_icon |-> "icon-fin-upright.svg", right_icon |-> "icon-fin-raked.svg"]
      [] config_key[2] = "area" ->
           [left_label |-> "Less Area", left_sublabel |-> "Loose",
            right_label |-> "More Area", right_sublabel |-> "Stable",
            left_icon |-> "icon-fin-less-area.svg", right_icon |-> "icon-fin-more-area.svg"]
      [] config_key[2] = "speed" ->
           [left_label |-> "Speed Control", left_sublabel |-> "",
            right_label |-> "Speed Generating", right_sublabel |-> "Drive",
            left_icon |-> "icon-fin-speed-control.svg", right_icon |-> "icon-fin-speed-drive.svg"]
      [] OTHER ->
           [left_label |-> "Less Flex", left_sublabel |-> "Responsive",
            right_label |-> "More Flex", right_sublabel |-> "Projection",
            left_icon |-> "icon-fin-less-flex.svg", right_icon |-> "icon-fin-more-flex.svg"]

(***************************************************************************)
(* Generic helpers.                                                        *)
(***************************************************************************)
Range(s) == {s[i] : i \in DOMAIN s}

\* x in a Python list
InList(x, list) == x \in Range(list)

\* the sequences without repetition over S, of length at most n
InjSeqs(S, n) ==
    UNION {{s \in [1..k -> S] : \A i, j \in 1..k : s[i] = s[j] => i = j} : k \in 0..n}

RECURSIVE Concat(_)
\* '\n'.join / concatenation of a list of blocks
Concat(ss) == IF ss = <<>> THEN <<>> ELSE Head(ss) \o Concat(Tail(ss))

MaxOf(S) == CHOOSE x \in S : \A y \in S : y <= x

(***************************************************************************)
(* What the Admin API can answer.  A metafield definition node carries     *)
(* namespace, key, name and type name (query at lines 71-84); a metaobject *)
(* field definition carries key, name, type name and validations (query    *)
(* at lines 125-138).  Validation values are decimal strings in the API;   *)
(* the model writes them as the integers they denote.                      *)
(***************************************************************************)
Node(ns, key, name, type) == [namespace |-> ns, key |-> key, name |-> name, type |-> type]

SizingChart == Node("custom", "sizing_chart", "Sizing Chart", "url")
Rating == Node("custom", "rating", "Rating", "number_integer")
Notes == Node("private", "notes", "Notes", "multi_line_text_field")
FinRef == Node("custom", "fin_characteristics", "Fin Characteristics", "metaobject_reference")
PrivateFinRef == Node("private", "fin_characteristics", "Fin (internal)", "metaobject_reference")

\* the metafield definitions a shop may hold
AllNodes == {SizingChart, Rating, Notes, FinRef, PrivateFinRef}
\* the smaller catalogue used when two invocations overlap
PairNodes == {SizingChart, FinRef}

SubField(key, name, type, validations) ==
    [key |-> key, name |-> name, type |-> type, validations |-> validations]

Rake == SubField("rake", "Rake", "number_integer", <<>>)
Area == SubField("area", "Area", "number_integer",
                 <<[name |-> "min", value |-> 0], [name |-> "max", value |-> 10]>>)
FormText == SubField("form_text", "Form Text", "single_line_text_field", <<>>)
RatingText == SubField("rating", "Rating", "multi_line_text_field", <<>>)
Color == SubField("color", "Color", "color", <<>>)

AllSubFields == {Rake, Area, FormText, RatingText, Color}
PairSubFields == {Rake, FormText}

\* the metaobject types a reference of the catalogue can name (mo_type = ref['key'])
MoTypes == {n.key : n \in {m \in AllNodes : m.type = "metaobject_reference"}}

\* a response without a definition in it
NoDefinition == [status |-> 200, body |-> "no_definition", name |-> "", fields |-> <<>>]

\* responses to the per-type query: a definition, a JSON body without one, or a
\* body on which json() raises ("not_json"); the last two also with a
\* non-success status
MoResponses(subs, maxS) ==
    {[status |-> 200, body |-> "definition", name |-> "Fin Characteristics", fields |-> f] :
        f \in InjSeqs(subs, maxS)}
    \cup {[status |-> s, body |-> b, name |-> "", fields |-> <<>>] :
            s \in {200, 500}, b \in {"no_definition", "not_json"}}

RefKeys(edges) == {edges[i].key : i \in {j \in DOMAIN edges : edges[j].type = "metaobject_reference"}}

NoMo == [k \in MoTypes |-> NoDefinition]

ApiRecord(status, body, edges, mo, name, flds) ==
    [status |-> status, body |-> body, edges |-> edges, mo |-> mo, name |-> name, fields |-> flds]

\* the answer used when no request is ever sent
NoApi == ApiRecord(200, "json", <<>>, NoMo, "", <<>>)

\* answers to generate_metafields.py: the first query's status and body, and the
\* per-type answers for the types the returned references name
MetafieldsApi(nodes, subs, maxE, maxS) ==
    UNION {{ApiRecord(200, "json", e, m, "", <<>>) :
               m \in {f \in [MoTypes -> MoResponses(subs, maxS)] :
                         \A k \in MoTypes : k \notin RefKeys(e) => f[k] = NoDefinition}} :
           e \in InjSeqs(nodes, maxE)}
    \cup {ApiRecord(s, b, <<>>, NoMo, "", <<>>) : s \in {200, 500}, b \in {"json", "not_json"}}

\* answers to generate_fin_characteristics.py: one query
FinApi(subs, maxS) ==
    {ApiRecord(m.status, m.body, <<>>, NoMo, m.name, m.fields) : m \in MoResponses(subs, maxS)}

\* values of the environment variable: unset (None), empty, set
Tokens == {"None", "", "shpat_secret"}

(***************************************************************************)
(* generate_metafields.py: filtering and classification.                   *)
(***************************************************************************)
\* variant: `if ACCESS_TOKEN is None`, which lets an empty credential through
TokenAbsentNoneOnly(token) == token = "None"

\* `if not ACCESS_TOKEN`: None and the empty string are falsy
TokenAbsent(token) == token = "None" \/ token = ""

\* variant: the status of the response is not looked at
TransportUnchecked(status) == TRUE

\* `response.status_code != 200` is the only transport check
TransportOk(status) == status = 200

\* variant: the deny-list is left out of the test
EligibleNamespaceOnly(ns, key) == InList(ns, INCLUDE_NAMESPACES)

\* the elif at line 110
Eligible(ns, key) == InList(ns, INCLUDE_NAMESPACES) /\ ~InList(key, EXCLUDE_KEYS)

IsReference(node) == node.type = "metaobject_reference"

\* metaobject_refs after the loop of lines 98-116
MetaobjectRefs(edges) ==
    LET sel == SelectSeq(edges, IsReference)
    IN  [i \in DOMAIN sel |->
            [namespace |-> sel[i].namespace, key |-> sel[i].key, name |-> sel[i].name]]

\* regular_fields after the loop of lines 98-116
RegularFields(edges) ==
    LET Keep(node) == ~IsReference(node) /\ Eligible(node.namespace, node.key)
    IN  SelectSeq(edges, Keep)

\* metaobject_definitions[mo_type] = value on an insertion-ordered dict: a new
\* key is appended, an existing key keeps its place and takes the new value
DictSet(dict, mo_type, value) ==
    IF \E i \in DOMAIN dict : dict[i].mo_type = mo_type
    THEN [i \in DOMAIN dict |-> IF dict[i].mo_type = mo_type THEN value ELSE dict[i]]
    ELSE Append(dict, value)

\* validations.get(name, default) on {v['name']: v['value'] for v in validations}
ValidationGet(validations, name, default) ==
    LET at == {i \in DOMAIN validations : validations[i].name = name}
    IN  IF at = {} THEN default ELSE validations[MaxOf(at)].value

IsBarType(field_type) == field_type = "number_integer"

\* variant: only the single-line type counts as text
IsTextTypeSingleLine(field_type) == field_type = "single_line_text_field"

IsTextType(field_type) ==
    field_type \in {"single_line_text_field", "multi_line_text_field"}

\* variant: bar_fields.insert(0, ...) instead of append
BarFieldsReversed(flds) ==
    LET IsBar(f) == IsBarType(f.type)
        sel == SelectSeq(flds, IsBar)
    IN  [i \in DOMAIN sel |->
            [key |-> sel[Len(sel) + 1 - i].key, name |-> sel[Len(sel) + 1 - i].name,
             min |-> ValidationGet(sel[Len(sel) + 1 - i].validations, "min", 0),
             max |-> ValidationGet(sel[Len(sel) + 1 - i].validations, "max", 100)]]

\* bar_fields after the loop of lines 191-214
BarFields(flds) ==
    LET IsBar(f) == IsBarType(f.type)
        sel == SelectSeq(flds, IsBar)
    IN  [i \in DOMAIN sel |->
            [key |-> sel[i].key, name |-> sel[i].name,
             min |-> ValidationGet(sel[i].validations, "min", 0),
             max |-> ValidationGet(sel[i].validations, "max", 100)]]

\* text_fields after the loop of lines 191-214
TextFields(flds) ==
    LET IsText(f) == ~IsBarType(f.type) /\ IsTextType(f.type)
        sel == SelectSeq(flds, IsText)
    IN  [i \in DOMAIN sel |->
            [key |-> sel[i].key, name |-> sel[i].name,
             multiline |-> sel[i].type = "multi_line_text_field"]]

(***************************************************************************)
(* generate_metafields.py: rendering.  A Liquid expression is the tuple of *)
(* its dotted path; a part of the document is a record of the values the   *)
(* script substitutes into that part of the text.                          *)
(***************************************************************************)
Part == [kind |-> "", ns |-> "", key |-> "", name |-> "", guard |-> <<>>,
         value |-> <<>>, filter |-> "", label |-> "", labels |-> NoLabels,
         n |-> 0, list |-> <<>>]

\* product.metafields.<ns>.<key>.value
MetafieldValue(ns, key) == <<"product", "metafields", ns, key, "value">>

\* value_output of lines 162-167
ValueFilter(ftype) ==
    CASE ftype = "url" -> "link"
      [] ftype = "multi_line_text_field" -> "newline_to_br"
      [] OTHER -> ""

\* one block of field_blocks (lines 169-175)
FieldBlock(f) ==
    [Part EXCEPT !.kind = "item", !.ns = f.namespace, !.key = f.key, !.name = f.name,
                 !.guard = MetafieldValue(f.namespace, f.key),
                 !.value = MetafieldValue(f.namespace, f.key),
                 !.filter = ValueFilter(f.type)]

\* key.replace('-', '_'), for the keys of the catalogue
HyphenToUnderscore(key) == IF key = "fin-characteristics" THEN "fin_characteristics" ELSE key

\* viz_var = f"mo_{key.replace('-', '_')}"
VizVar(key) == <<"mo_", HyphenToUnderscore(key)>>

\* <viz_var>.<field key>.value
SubFieldValue(viz_var, field_key) == viz_var \o <<field_key, "value">>

\* the labels and icons of lines 230-238
BarLabels(mo_type, bf) ==
    IF <<mo_type, bf.key>> \in BarConfigKeys
    THEN BAR_FIELD_CONFIG(<<mo_type, bf.key>>)
    ELSE [NoLabels EXCEPT !.left_label = bf.name]

\* the number the consuming template engine puts into `left: ...%` for a runtime
\* value of the sub-field: line 264 interpolates the value itself
MarkerPercent(bf, runtime_value) == runtime_value

\* variant: the bar group is guarded by the section's value, not by its own
BarGroupGuardsSection(viz_var, mo_type, bf) ==
    [Part EXCEPT !.kind = "bar", !.key = bf.key, !.name = bf.name,
                 !.guard = viz_var,
                 !.value = SubFieldValue(viz_var, bf.key),
                 !.labels = BarLabels(mo_type, bf)]

\* one bar group (lines 259-270)
BarGroup(viz_var, mo_type, bf) ==
    [Part EXCEPT !.kind = "bar", !.key = bf.key, !.name = bf.name,
                 !.guard = SubFieldValue(viz_var, bf.key),
                 !.value = SubFieldValue(viz_var, bf.key),
                 !.labels = BarLabels(mo_type, bf)]

\* tf['name'].replace(' Text', '').replace('_text', '').replace('_', ' ').title(),
\* for the names of the catalogue
TextLabel(name) == IF name = "Form Text" THEN "Form" ELSE name

\* one description (lines 280-285)
TextEntry(viz_var, tf) ==
    [Part EXCEPT !.kind = "text", !.key = tf.key, !.name = tf.name,
                 !.guard = SubFieldValue(viz_var, tf.key),
                 !.value = SubFieldValue(viz_var, tf.key),
                 !.filter = IF tf.multiline THEN "newline_to_br" ELSE "",
                 !.label = TextLabel(tf.name)]

\* viz_html of one entry of metaobject_definitions (lines 181-291)
VizSection(mo_def) ==
    LET viz_var == VizVar(mo_def.key)
        bar_fields == BarFields(mo_def.fields)
        text_fields == TextFields(mo_def.fields)
    IN  <<[Part EXCEPT !.kind = "viz_open", !.ns = mo_def.namespace, !.key = mo_def.key,
                       !.name = mo_def.name,
                       !.value = MetafieldValue(mo_def.namespace, mo_def.key),
                       !.guard = viz_var]>>
        \o (IF bar_fields # <<>>
            THEN <<[Part EXCEPT !.kind = "bars_open"]>>
                 \o [i \in DOMAIN bar_fields |-> BarGroup(viz_var, mo_def.mo_type, bar_fields[i])]
                 \o <<[Part EXCEPT !.kind = "bars_close"]>>
            ELSE <<>>)
        \o (IF text_fields # <<>>
            THEN <<[Part EXCEPT !.kind = "descriptions_open"]>>
                 \o [i \in DOMAIN text_fields |-> TextEntry(viz_var, text_fields[i])]
                 \o <<[Part EXCEPT !.kind = "descriptions_close"]>>
            ELSE <<>>)
        \o <<[Part EXCEPT !.kind = "viz_close", !.guard = viz_var]>>

\* variant: the count line also depends on the wall clock
ProvenanceHeaderClocked(ts, regular, definitions) ==
    <<[Part EXCEPT !.kind = "generated", !.n = ts],
      [Part EXCEPT !.kind = "regular_count", !.n = Len(regular) + ts],
      [Part EXCEPT !.kind = "mo_types",
                   !.list = IF definitions # <<>>
                            THEN [i \in DOMAIN definitions |-> definitions[i].mo_type]
                            ELSE <<"none">>],
      [Part EXCEPT !.kind = "namespaces", !.list = INCLUDE_NAMESPACES]>>

\* the provenance comment of lines 299-305
ProvenanceHeader(ts, regular, definitions) ==
    <<[Part EXCEPT !.kind = "generated", !.n = ts],
      [Part EXCEPT !.kind = "regular_count", !.n = Len(regular)],
      [Part EXCEPT !.kind = "mo_types",
                   !.list = IF definitions # <<>>
                            THEN [i \in DOMAIN definitions |-> definitions[i].mo_type]
                            ELSE <<"none">>],
      [Part EXCEPT !.kind = "namespaces", !.list = INCLUDE_NAMESPACES]>>

\* liquid of generate_metafields.py (lines 293-384)
MetafieldsLiquid(ts, regular, definitions) ==
    ProvenanceHeader(ts, regular, definitions)
    \o <<[Part EXCEPT !.kind = "head"]>>
    \o Concat([i \in DOMAIN definitions |-> VizSection(definitions[i])])
    \o <<[Part EXCEPT !.kind = "list_open"]>>
    \o [i \in DOMAIN regular |-> FieldBlock(regular[i])]
    \o <<[Part EXCEPT !.kind = "tail"]>>

(***************************************************************************)
(* generate_fin_characteristics.py: rendering (lines 60-263).  Only the    *)
(* timestamp and the field count are substituted; the rest is fixed text.  *)
(***************************************************************************)
FinLiquid(ts, flds) ==
    <<[Part EXCEPT !.kind = "generated", !.n = ts],
      [Part EXCEPT !.kind = "fields_count", !.n = Len(flds)],
      [Part EXCEPT !.kind = "fin_body", !.guard = <<"fin">>,
                   !.value = MetafieldValue("custom", "fin_characteristics")]>>

(***************************************************************************)
(* The output file.                                                        *)
(***************************************************************************)
\* what a path holds before any invocation: the previously generated file
PreviousFile == <<[Part EXCEPT !.kind = "previous"]>>

\* variant: the file is opened without truncation (mode 'r+')
TruncateKeeps(content) == content

\* open(path, 'w') truncates the file to length zero
Truncate(content) == <<>>

\* write() of `data` through a descriptor whose offset is 0: the bytes replace
\* what is there, and whatever lies beyond them stays
WriteAtStart(content, data) ==
    data \o SubSeq(content, Len(data) + 1, Len(content))

(***************************************************************************)
(* The invocations.                                                        *)
(***************************************************************************)
Runs == DOMAIN pc

\* exit(code), or the interpreter ending after an uncaught exception (code 1)
Exit(r, code) ==
    /\ pc' = [pc EXCEPT ![r] = "done"]
    /\ exit_code' = [exit_code EXCEPT ![r] = code]

Request(query, type, status) == [query |-> query, type |-> type, status |-> status]

\* lines 60-62 of generate_metafields.py, lines 18-20 of generate_fin_characteristics.py
Start(r) ==
    /\ pc[r] = "start"
    /\ IF TokenAbsent(ACCESS_TOKEN[r])
       THEN Exit(r, 0)
       ELSE /\ pc' = [pc EXCEPT ![r] = "query"]
            /\ UNCHANGED exit_code
    /\ UNCHANGED <<script, ACCESS_TOKEN, api, requests, metaobject_refs, regular_fields,
                   metaobject_definitions, fields, timestamp, liquid, file, opens, fs_log>>

\* generate_metafields.py lines 86-119: the first query and the partition of its edges
FetchDefinitions(r) ==
    /\ script[r] = "metafields"
    /\ pc[r] = "query"
    /\ requests' = [requests EXCEPT
                       ![r] = Append(@, Request("metafieldDefinitions", "", api[r].status))]
    /\ IF ~TransportOk(api[r].status) \/ api[r].body = "not_json"
       THEN /\ Exit(r, 1)
            /\ UNCHANGED <<metaobject_refs, regular_fields>>
       ELSE /\ metaobject_refs' = [metaobject_refs EXCEPT ![r] = MetaobjectRefs(api[r].edges)]
            /\ regular_fields' = [regular_fields EXCEPT ![r] = RegularFields(api[r].edges)]
            /\ pc' = [pc EXCEPT ![r] = "fetch_mo"]
            /\ UNCHANGED exit_code
    /\ UNCHANGED <<script, ACCESS_TOKEN, api, metaobject_definitions, fields, timestamp,
                   liquid, file, opens, fs_log>>

\* the reference the loop of line 123 handles next: one request was logged for
\* the first query and one for every reference handled so far
NextRef(r) == Len(requests[r])

\* generate_metafields.py lines 123-152: one iteration of the loop over metaobject_refs.
\* The status of mo_response is never read; json() raises on a body that is no JSON.
FetchMetaobject(r) ==
    /\ script[r] = "metafields"
    /\ pc[r] = "fetch_mo"
    /\ NextRef(r) <= Len(metaobject_refs[r])
    /\ LET ref == metaobject_refs[r][NextRef(r)]
           mo_type == ref.key
           mo_response == api[r].mo[mo_type]
       IN  /\ requests' = [requests EXCEPT
                              ![r] = Append(@, Request("metaobjectDefinitionByType", mo_type,
                                                       mo_response.status))]
           /\ IF mo_response.body = "not_json"
              THEN /\ Exit(r, 1)
                   /\ UNCHANGED metaobject_definitions
              ELSE /\ metaobject_definitions' =
                          [metaobject_definitions EXCEPT
                              ![r] = IF mo_response.body = "definition"
                                     THEN DictSet(@, mo_type,
                                                  [mo_type |-> mo_type,
                                                   namespace |-> ref.namespace,
                                                   key |-> ref.key,
                                                   name |-> mo_response.name,
                                                   fields |-> mo_response.fields])
                                     ELSE @]
                   /\ UNCHANGED <<pc, exit_code>>
    /\ UNCHANGED <<script, ACCESS_TOKEN, api, metaobject_refs, regular_fields, fields,
                   timestamp, liquid, file, opens, fs_log>>

\* variant: the document is assembled and written without waiting for the loop
\* over metaobject_refs to end
RenderEarly(r) ==
    /\ script[r] = "metafields"
    /\ pc[r] = "fetch_mo"
    /\ \E now \in 1..MaxTime :
          /\ timestamp' = [timestamp EXCEPT ![r] = now]
          /\ liquid' = [liquid EXCEPT
                           ![r] = MetafieldsLiquid(now, regular_fields[r],
                                                   metaobject_definitions[r])]
    /\ pc' = [pc EXCEPT ![r] = "open"]
    /\ UNCHANGED <<script, ACCESS_TOKEN, api, exit_code, requests, metaobject_refs,
                   regular_fields, metaobject_definitions, fields, file, opens, fs_log>>

\* generate_metafields.py lines 154-384: the document, once the loop has ended
Render(r) ==
    /\ script[r] = "metafields"
    /\ pc[r] = "fetch_mo"
    /\ NextRef(r) > Len(metaobject_refs[r])
    /\ \E now \in 1..MaxTime :
          /\ timestamp' = [timestamp EXCEPT ![r] = now]
          /\ liquid' = [liquid EXCEPT
                           ![r] = MetafieldsLiquid(now, regular_fields[r],
                                                   metaobject_definitions[r])]
    /\ pc' = [pc EXCEPT ![r] = "open"]
    /\ UNCHANGED <<script, ACCESS_TOKEN, api, exit_code, requests, metaobject_refs,
                   regular_fields, metaobject_definitions, fields, file, opens, fs_log>>

\* generate_fin_characteristics.py lines 44-58
FinFetchDefinition(r) ==
    /\ script[r] = "fin"
    /\ pc[r] = "query"
    /\ requests' = [requests EXCEPT
                       ![r] = Append(@, Request("metaobjectDefinitionByType",
                                                "fin_characteristics", api[r].status))]
    /\ IF ~TransportOk(api[r].status) \/ api[r].body = "not_json"
       THEN /\ Exit(r, 1)
            /\ UNCHANGED fields
       ELSE IF api[r].body # "definition"
       THEN /\ Exit(r, 0)
            /\ UNCHANGED fields
       ELSE /\ fields' = [fields EXCEPT ![r] = api[r].fields]
            /\ pc' = [pc EXCEPT ![r] = "render"]
            /\ UNCHANGED exit_code
    /\ UNCHANGED <<script, ACCESS_TOKEN, api, metaobject_refs, regular_fields,
                   metaobject_definitions, timestamp, liquid, file, opens, fs_log>>

\* generate_fin_characteristics.py lines 60-263
FinRender(r) ==
    /\ script[r] = "fin"
    /\ pc[r] = "render"
    /\ \E now \in 1..MaxTime :
          /\ timestamp' = [timestamp EXCEPT ![r] = now]
          /\ liquid' = [liquid EXCEPT ![r] = FinLiquid(now, fields[r])]
    /\ pc' = [pc EXCEPT ![r] = "open"]
    /\ UNCHANGED <<script, ACCESS_TOKEN, api, exit_code, requests, metaobject_refs,
                   regular_fields, metaobject_definitions, fields, file, opens, fs_log>>

FsEvent(r, op) == [run |-> r, op |-> op]

\* `with open(THEME_FILE, 'w') as f:` of either script
OpenFile(r) ==
    /\ pc[r] = "open"
    /\ file' = [file EXCEPT ![THEME_FILE(script[r])] = Truncate(@)]
    /\ opens' = [opens EXCEPT ![r] = @ + 1]
    /\ fs_log' = Append(fs_log, FsEvent(r, "open"))
    /\ pc' = [pc EXCEPT ![r] = "write"]
    /\ UNCHANGED <<script, ACCESS_TOKEN, api, exit_code, requests, metaobject_refs,
                   regular_fields, metaobject_definitions, fields, timestamp, liquid>>

\* `f.write(liquid)` and the close that ends the with block, then the normal end
\* of the script.  The text reaches the file in one write at the descriptor's
\* own offset, which is 0 after the open.
WriteFile(r) ==
    /\ pc[r] = "write"
    /\ file' = [file EXCEPT ![THEME_FILE(script[r])] = WriteAtStart(@, liquid[r])]
    /\ fs_log' = Append(fs_log, FsEvent(r, "write"))
    /\ Exit(r, 0)
    /\ UNCHANGED <<script, ACCESS_TOKEN, api, requests, metaobject_refs, regular_fields,
                   metaobject_definitions, fields, timestamp, liquid, opens>>

Next ==
    \/ \E r \in Runs : Start(r)
    \/ \E r \in Runs : FetchDefinitions(r)
    \/ \E r \in Runs : FetchMetaobject(r)
    \/ \E r \in Runs : Render(r)
    \/ \E r \in Runs : FinFetchDefinition(r)
    \/ \E r \in Runs : FinRender(r)
    \/ \E r \in Runs : OpenFile(r)
    \/ \E r \in Runs : WriteFile(r)

\* the answers an invocation can get: none is asked for without a credential
ApiChoices(s, token, nodes, subs, maxE, maxS) ==
    IF token \in {"None", ""} THEN {NoApi}
    ELSE IF s = "metafields" THEN MetafieldsApi(nodes, subs, maxE, maxS)
    ELSE FinApi(subs, maxS)

\* the state of the invocations `runs` before their first statement
Fresh(runs) ==
    /\ pc = [r \in runs |-> "start"]
    /\ exit_code = [r \in runs |-> -1]
    /\ requests = [r \in runs |-> <<>>]
    /\ metaobject_refs = [r \in runs |-> <<>>]
    /\ regular_fields = [r \in runs |-> <<>>]
    /\ metaobject_definitions = [r \in runs |-> <<>>]
    /\ fields = [r \in runs |-> <<>>]
    /\ timestamp = [r \in runs |-> 0]
    /\ liquid = [r \in runs |-> <<>>]
    /\ opens = [r \in runs |-> 0]
    /\ file = [p \in Paths |-> PreviousFile]
    /\ fs_log = <<>>

\* one invocation of either script
Init ==
    /\ \E s \in Scripts, token \in Tokens :
          \E a \in ApiChoices(s, token, AllNodes, AllSubFields, MaxEdges, MaxSubFields) :
             /\ script = [r \in {1} |-> s]
             /\ ACCESS_TOKEN = [r \in {1} |-> token]
             /\ api = [r \in {1} |-> a]
    /\ Fresh({1})

Spec == Init /\ [][Next]_vars

\* two invocations of the same script, free to overlap
InitPair ==
    /\ \E s \in Scripts, t1 \in Tokens, t2 \in Tokens :
          \E a1 \in ApiChoices(s, t1, PairNodes, PairSubFields, PairMaxEdges, PairMaxSubFields),
             a2 \in ApiChoices(s, t2, PairNodes, PairSubFields, PairMaxEdges, PairMaxSubFields) :
             /\ script = [r \in {1, 2} |-> s]
             /\ ACCESS_TOKEN = [r \in {1, 2} |-> IF r = 1 THEN t1 ELSE t2]
             /\ api = [r \in {1, 2} |-> IF r = 1 THEN a1 ELSE a2]
    /\ Fresh({1, 2})

SpecPair == InitPair /\ [][Next]_vars

(***************************************************************************)
(* Properties.                                                             *)
(***************************************************************************)
Done(r) == pc[r] = "done"

AllDone == \A r \in Runs : Done(r)

HasToken(r) == ACCESS_TOKEN[r] \notin {"None", ""}

\* the invocation has assembled its document
Rendered(r) == liquid[r] # <<>>

Untouched == file = [p \in Paths |-> PreviousFile]

\* the invocation whose write is the last one on the file system
LastWriter == fs_log[Len(fs_log)].run

OutputOf(r) == file[THEME_FILE(script[r])]

PartsOfKind(doc, kinds) == {i \in DOMAIN doc : doc[i].kind \in kinds}

\* C1 as stated: every definition that contributes a flat list item or a visualization
\* section to the document has its namespace in INCLUDE_NAMESPACES and its key
\* outside EXCLUDE_KEYS.
C1_OnlyEligibleInOutput ==
    \A r \in Runs :
        script[r] = "metafields" =>
            \A i \in PartsOfKind(liquid[r], {"item", "viz_open"}) :
                /\ liquid[r][i].ns \in {"custom", "gato_heroi", "reviews", "descriptors"}
                /\ liquid[r][i].key \notin {"rating_value", "review_count", "rating",
                                            "rating_count", "availability"}

\* C1 (amended): every flat list item of the document comes from a fetched
\* definition that is no metaobject reference, has its namespace in
\* INCLUDE_NAMESPACES and its key outside EXCLUDE_KEYS; every visualization
\* section comes from a fetched definition of type metaobject_reference, to
\* which neither list is applied.
C1_OnlyEligibleItems ==
    \A r \in Runs :
        script[r] = "metafields" =>
            /\ \A i \in PartsOfKind(liquid[r], {"item"}) :
                  /\ liquid[r][i].ns \in {"custom", "gato_heroi", "reviews", "descriptors"}
                  /\ liquid[r][i].key \notin {"rating_value", "review_count", "rating",
                                              "rating_count", "availability"}
                  /\ \E node \in Range(api[r].edges) :
                        /\ node.type # "metaobject_reference"
                        /\ node.namespace = liquid[r][i].ns
                        /\ node.key = liquid[r][i].key
            /\ \A i \in PartsOfKind(liquid[r], {"viz_open"}) :
                  \E node \in Range(api[r].edges) :
                      /\ node.type = "metaobject_reference"
                      /\ node.namespace = liquid[r][i].ns
                      /\ node.key = liquid[r][i].key

\* an excluded flat field and a reference outside the allow-list were fetched
C1_Witness ==
    \E r \in Runs :
        /\ Done(r)
        /\ api[r].edges = <<Rating, PrivateFinRef>>
        /\ PartsOfKind(liquid[r], {"item"}) = {}
        /\ \E i \in PartsOfKind(liquid[r], {"viz_open"}) : liquid[r][i].ns = "private"
        /\ OutputOf(r) = liquid[r]

\* C2: for every number_integer sub-field of a rendered section, the marker
\* position is the runtime value mapped linearly from the resolved bounds
\* [min, max] onto [0, 100].
C2_MarkerScaledByBounds ==
    \A r \in Runs :
        (script[r] = "metafields" /\ Rendered(r)) =>
            \A d \in Range(metaobject_definitions[r]) :
                \A bf \in Range(BarFields(d.fields)) :
                    /\ \E i \in PartsOfKind(liquid[r], {"bar"}) :
                          liquid[r][i].value = SubFieldValue(VizVar(d.key), bf.key)
                    /\ \A v \in bf.min..bf.max :
                          MarkerPercent(bf, v) * (bf.max - bf.min) = (v - bf.min) * 100

\* C3: without a credential (unset or empty) an invocation of either script never
\* gets past the credential check: it sends no request, never opens the output
\* file, leaves the file as it was, and ends with exit code 0.
C3_NoTokenSkips ==
    \A r \in Runs :
        ~HasToken(r) =>
            /\ pc[r] \in {"start", "done"}
            /\ requests[r] = <<>>
            /\ opens[r] = 0
            /\ Untouched
            /\ exit_code[r] = IF Done(r) THEN 0 ELSE -1

\* a run with an empty credential has ended
C3_Witness ==
    \E r \in Runs : Done(r) /\ ACCESS_TOKEN[r] = "" /\ exit_code[r] = 0

\* the first query came back with status 200 and no definition in it
ZeroDefinitions(r) ==
    /\ HasToken(r)
    /\ api[r].status = 200
    /\ IF script[r] = "metafields"
       THEN api[r].body = "json" /\ api[r].edges = <<>>
       ELSE api[r].body = "no_definition"

\* C4: when the fetch succeeds with zero definitions, the invocation ends with
\* exit code 0 and has not written the output file.
C4_ZeroDefinitionsNoWrite ==
    \A r \in Runs :
        (Done(r) /\ ZeroDefinitions(r)) => (exit_code[r] = 0 /\ opens[r] = 0)

\* C5: when the first query's response has a status other than 200, the
\* invocation sends no further request, never opens the output file, leaves it
\* as it was, and ends with exit code 1.
C5_TransportErrorIsFatal ==
    \A r \in Runs :
        (HasToken(r) /\ api[r].status # 200) =>
            /\ pc[r] \in {"start", "query", "done"}
            /\ Len(requests[r]) <= 1
            /\ opens[r] = 0
            /\ Untouched
            /\ Done(r) => (exit_code[r] = 1 /\ Len(requests[r]) = 1)

\* a run whose only request got status 500 has ended with exit code 1
C5_Witness ==
    \E r \in Runs :
        /\ Done(r)
        /\ Len(requests[r]) = 1
        /\ requests[r][1].status = 500
        /\ exit_code[r] = 1

\* C6: a non-success status of any per-type query of generate_metafields.py
\* ends the invocation with a non-zero exit code and without a write.
C6_MoTransportErrorIsFatal ==
    \A r \in Runs :
        (/\ Done(r)
         /\ script[r] = "metafields"
         /\ \E i \in DOMAIN requests[r] :
               /\ requests[r][i].query = "metaobjectDefinitionByType"
               /\ requests[r][i].status # 200)
        => (exit_code[r] # 0 /\ opens[r] = 0)

\* C7: two invocations of a script that got identical API answers assembled
\* documents that differ at most in the 'Generated:' timestamp line.
C7_SameAnswersSameDocument ==
    \A r \in Runs : \A q \in Runs :
        (Rendered(r) /\ Rendered(q) /\ script[r] = script[q] /\ api[r] = api[q]) =>
            /\ Len(liquid[r]) = Len(liquid[q])
            /\ \A i \in DOMAIN liquid[r] :
                  liquid[r][i] # liquid[q][i] =>
                      (liquid[r][i].kind = "generated" /\ liquid[q][i].kind = "generated")

\* two finished runs with the same answers, a section each, and different clocks
C7_Witness ==
    /\ DOMAIN pc = {1, 2}
    /\ AllDone
    /\ Rendered(1) /\ Rendered(2)
    /\ script[1] = "metafields"
    /\ api[1] = api[2]
    /\ metaobject_definitions[1] # <<>>
    /\ timestamp[1] # timestamp[2]
    /\ liquid[1] # liquid[2]

\* C8 as stated: after both overlapping invocations have finished, the file
\* holds exactly the document of the invocation that wrote last.
C8_LastWriterWins ==
    (AllDone /\ fs_log # <<>>) => OutputOf(LastWriter) = liquid[LastWriter]

\* no other invocation touched the file between r's open and r's write
OpenedLast(r) ==
    \E i \in DOMAIN fs_log :
        /\ fs_log[i] = FsEvent(r, "open")
        /\ \A j \in DOMAIN fs_log : j > i => fs_log[j].run = r

\* C8 (amended): after the invocations have finished, the file holds exactly the
\* document of the invocation that wrote last, provided no other invocation
\* opened or wrote the file between that invocation's open and its write.
C8_LastWriterWinsWhenOpenedLast ==
    (AllDone /\ fs_log # <<>> /\ OpenedLast(LastWriter)) =>
        OutputOf(LastWriter) = liquid[LastWriter]

\* a shorter document written after, and not interleaved with, a longer one
C8_Witness ==
    /\ DOMAIN pc = {1, 2}
    /\ AllDone
    /\ Len(fs_log) = 4
    /\ OpenedLast(LastWriter)
    /\ \E first \in Runs :
          /\ first # LastWriter
          /\ Len(liquid[first]) > Len(liquid[LastWriter])
    /\ OutputOf(LastWriter) = liquid[LastWriter]

\* number of parts of the given kind that display the sub-field
Shown(doc, kind, viz_var, field_key) ==
    Cardinality({i \in PartsOfKind(doc, {kind}) :
                    doc[i].value = SubFieldValue(viz_var, field_key)})

\* C9: every sub-field of a fetched definition is classified by its type name
\* alone: number_integer gives one bar, the two text types give one description,
\* any other type gives nothing and does not stop the run; no sub-field is both,
\* and its key being in EXCLUDE_KEYS changes nothing.
C9_ClassifiedByTypeAlone ==
    \A r \in Runs :
        (script[r] = "metafields" /\ Rendered(r)) =>
            /\ \A d \in Range(metaobject_definitions[r]) :
                  \A j \in DOMAIN d.fields :
                      LET f == d.fields[j]
                      IN  /\ Shown(liquid[r], "bar", VizVar(d.key), f.key)
                               = IF f.type = "number_integer" THEN 1 ELSE 0
                          /\ Shown(liquid[r], "text", VizVar(d.key), f.key)
                               = IF f.type \in {"single_line_text_field",
                                                "multi_line_text_field"} THEN 1 ELSE 0
            /\ exit_code[r] \in {-1, 0}
            /\ Done(r) => exit_code[r] = 0

\* a text sub-field with a deny-listed key is shown, one of another type is not
C9_Witness ==
    \E r \in Runs :
        /\ Done(r)
        /\ exit_code[r] = 0
        /\ \E d \in Range(metaobject_definitions[r]) :
              /\ d.fields = <<RatingText, Color>>
              /\ Shown(liquid[r], "text", VizVar(d.key), "rating") = 1
              /\ Shown(liquid[r], "bar", VizVar(d.key), "color") = 0
              /\ Shown(liquid[r], "text", VizVar(d.key), "color") = 0

\* keys of the sub-fields a section displays, in document order
SectionKeys(doc, kinds, viz_var) ==
    LET Mine(part) == part.kind \in kinds /\ SubSeq(part.value, 1, Len(viz_var)) = viz_var
        sel == SelectSeq(doc, Mine)
    IN  [i \in DOMAIN sel |-> sel[i].key]

\* keys of the fields of the given types, in the order the API returned them
KeysOfTypes(flds, types) ==
    LET Typed(f) == f.type \in types
        sel == SelectSeq(flds, Typed)
    IN  [i \in DOMAIN sel |-> sel[i].key]

BarTypes == {"number_integer"}
TextTypes == {"single_line_text_field", "multi_line_text_field"}

\* C10 as stated: within a section the classified sub-fields appear in the
\* relative order in which fieldDefinitions were returned.
C10_SubFieldOrderKept ==
    \A r \in Runs :
        (script[r] = "metafields" /\ Rendered(r)) =>
            \A d \in Range(metaobject_definitions[r]) :
                SectionKeys(liquid[r], {"bar", "text"}, VizVar(d.key))
                    = KeysOfTypes(d.fields, BarTypes \cup TextTypes)

\* C10 (amended): within a section the bars appear in the relative order of
\* their fieldDefinitions and so do the descriptions, and every bar comes
\* before every description.
C10_OrderKeptWithinBarsAndTexts ==
    \A r \in Runs :
        (script[r] = "metafields" /\ Rendered(r)) =>
            \A d \in Range(metaobject_definitions[r]) :
                /\ SectionKeys(liquid[r], {"bar"}, VizVar(d.key))
                       = KeysOfTypes(d.fields, BarTypes)
                /\ SectionKeys(liquid[r], {"text"}, VizVar(d.key))
                       = KeysOfTypes(d.fields, TextTypes)
                /\ SectionKeys(liquid[r], {"bar", "text"}, VizVar(d.key))
                       = KeysOfTypes(d.fields, BarTypes) \o KeysOfTypes(d.fields, TextTypes)

\* two bars in the order of fieldDefinitions, in the written file
C10_Witness ==
    \E r \in Runs :
        /\ Done(r)
        /\ \E d \in Range(metaobject_definitions[r]) :
              /\ d.fields = <<Rake, Area>>
              /\ SectionKeys(liquid[r], {"bar", "text"}, VizVar(d.key)) = <<"rake", "area">>
              /\ OutputOf(r) = liquid[r]

\* the fetched metaobject references whose type definition was returned with
\* at least one number_integer or text sub-field
ReferencesToShow(r) ==
    {node \in Range(api[r].edges) :
        /\ node.type = "metaobject_reference"
        /\ api[r].mo[node.key].body = "definition"
        /\ \E j \in DOMAIN api[r].mo[node.key].fields :
              api[r].mo[node.key].fields[j].type \in BarTypes \cup TextTypes}

\* the sections of the document that read product.metafields.<ns>.<key>.value
SectionsFor(doc, ns, key) ==
    {i \in PartsOfKind(doc, {"viz_open"}) :
        doc[i].value = <<"product", "metafields", ns, key, "value">>}

\* C11: every fetched metaobject_reference whose type definition has at least
\* one classified sub-field has exactly one visualization section in the
\* document, addressed by its own namespace and key, also when several
\* references (among them two with one key under two namespaces) are fetched.
C11_SectionPerReference ==
    \A r \in Runs :
        (script[r] = "metafields" /\ Rendered(r)) =>
            \A node \in ReferencesToShow(r) :
                Cardinality(SectionsFor(liquid[r], node.namespace, node.key)) = 1

\* the part at position i lies between a section's opening guard on `viz_var`
\* and that section's endif
InsideSection(doc, i) ==
    \E o \in PartsOfKind(doc, {"viz_open"}) :
        /\ o < i
        /\ doc[o].guard = SubSeq(doc[i].guard, 1, Len(doc[o].guard))
        /\ \A j \in PartsOfKind(doc, {"viz_open", "viz_close"}) : ~(o < j /\ j < i)

\* the section opened at position o is closed by the endif of its own guard
\* before another section opens
ClosedSection(doc, o) ==
    \E c \in PartsOfKind(doc, {"viz_close"}) :
        /\ o < c
        /\ doc[c].guard = doc[o].guard
        /\ \A j \in PartsOfKind(doc, {"viz_open", "viz_close"}) : ~(o < j /\ j < c)

\* C12: every flat item, every bar group and every description of the document
\* is guarded by `!= blank` on the very value it displays; every visualization
\* section is guarded, up to its own endif, by the variable assigned from the
\* reference's own value, and every bar group and description lies inside the
\* section whose variable it reads.
C12_EveryBlockGuardedByItsValue ==
    \A r \in Runs :
        script[r] = "metafields" =>
            LET doc == liquid[r]
            IN  /\ \A i \in PartsOfKind(doc, {"item"}) :
                      /\ doc[i].guard = <<"product", "metafields", doc[i].ns, doc[i].key, "value">>
                      /\ doc[i].value = doc[i].guard
                /\ \A i \in PartsOfKind(doc, {"bar", "text"}) :
                      /\ doc[i].guard # <<>>
                      /\ doc[i].guard[Len(doc[i].guard) - 1] = doc[i].key
                      /\ doc[i].value = doc[i].guard
                      /\ InsideSection(doc, i)
                /\ \A o \in PartsOfKind(doc, {"viz_open"}) :
                      /\ doc[o].guard # <<>>
                      /\ doc[o].value = <<"product", "metafields", doc[o].ns, doc[o].key, "value">>
                      /\ ClosedSection(doc, o)

\* a written document with a flat item and a section holding a bar and a description
C12_Witness ==
    \E r \in Runs :
        /\ Done(r)
        /\ OutputOf(r) = liquid[r]
        /\ PartsOfKind(liquid[r], {"item"}) # {}
        /\ PartsOfKind(liquid[r], {"viz_open"}) # {}
        /\ \E d \in Range(metaobject_definitions[r]) : d.fields = <<FormText, Rake>>
        /\ PartsOfKind(liquid[r], {"bar"}) # {}
        /\ PartsOfKind(liquid[r], {"text"}) # {}

\* the requests a run sends when nothing stops it: the first query and, in
\* generate_metafields.py, one query per fetched metaobject reference
AllRequests(r) ==
    IF script[r] = "metafields"
    THEN 1 + Cardinality({i \in DOMAIN api[r].edges :
                             api[r].edges[i].type = "metaobject_reference"})
    ELSE 1

\* the run ended on one of the early exits: no credential, a non-200 first
\* response, or (generate_fin_characteristics.py) no definition found
EarlyExit(r) ==
    /\ Done(r)
    /\ \/ ~HasToken(r)
       \/ api[r].status # 200
       \/ script[r] = "fin" /\ api[r].body = "no_definition"

\* the open and write calls of the run, in order
FsCallsOf(r) ==
    LET Mine(e) == e.run = r
        sel == SelectSeq(fs_log, Mine)
    IN  [i \in DOMAIN sel |-> sel[i].op]

\* C13: a run opens the output file at most once; whenever it has opened it,
\* every request of the run has already returned and none is sent afterwards;
\* a run that ended without opening the file, in particular on an early exit,
\* left the file exactly as it was.
C13_OneWriteAfterAllRequests ==
    \A r \in Runs :
        /\ opens[r] <= 1
        /\ FsCallsOf(r) \in {<<>>, <<"open">>, <<"open", "write">>}
        /\ Len(FsCallsOf(r)) > 0 <=> opens[r] = 1
        /\ opens[r] = 1 => Len(requests[r]) = AllRequests(r)
        /\ (Done(r) /\ opens[r] = 0) => Untouched
        /\ EarlyExit(r) => (opens[r] = 0 /\ Untouched)

\* a finished run that sent three requests and then wrote its document
C13_Witness ==
    \E r \in Runs :
        /\ Done(r)
        /\ Len(requests[r]) = 3
        /\ FsCallsOf(r) = <<"open", "write">>
        /\ OutputOf(r) = liquid[r]
        /\ OutputOf(r) # PreviousFile

====
